---- MODULE Spec2Model ----
(***************************************************************************)
(* Model of the BN254 differential-test generator (diff-test/src/main.rs)  *)
(* and of its contract adapter (diff-test/src/lib.rs).                     *)
(*                                                                         *)
(* Scale.  BN254 is replaced by the curve y^2 = x^3 + 6 over F_13, whose   *)
(* group has prime order 7 (cofactor 1, like BN254's G1), and U256 by a    *)
(* word of WordBytes bytes of ByteBits bits (16 values), so that a word    *)
(* can hold values at or above both field moduli, as a U256 can.  G2 is a  *)
(* subgroup of order 7 of the same curve over F_13[u]/(u^2 - 2).           *)
(*                                                                         *)
(* Field elements are their canonical representatives 0..m-1; a group      *)
(* element is held in affine form (into_affine is the library's            *)
(* normalisation of its internal representation).  An ABI encoding is the  *)
(* sequence of its words; hex text is a one-to-one rendering of it.        *)
(***************************************************************************)
EXTENDS Integers, Sequences, FiniteSets, TLC

VARIABLES
    runs,       \* number of invocations of the binary so far
    action,     \* cli.action of the latest invocation
    args,       \* cli.args of the latest invocation
    stdout,     \* lines the latest invocation wrote to standard output
    exit,       \* "none" | "ok" | "panic": how the latest invocation ended
    cause,      \* which panic ended it ("" when it did not panic)
    rng,        \* the generator the latest invocation built and what it drew
    entropy,    \* whether this build's test_rng() seeds itself from entropy
    cval,       \* codec harness: the value in hand
    chist       \* codec harness: the values it was converted from

vars == <<runs, action, args, stdout, exit, cause, rng, entropy, cval, chist>>
cliVars == <<runs, action, args, stdout, exit, cause, rng, entropy>>
codecVars == <<cval, chist>>

(***************************************************************************)
(* Parameters of the scaled curve and word                                 *)
(***************************************************************************)
Q == 13
R == 7
COEFF_B == 6
NONRESIDUE == 2
ByteBits == 2
WordBytes == 2

\* Bounds of the exploration
MaxSeed == 1
MaxCount == 1
MaxRuns == 2
MaxSteps == 2

RECURSIVE Pow(_, _)
Pow(b, e) == IF e = 0 THEN 1 ELSE b * Pow(b, e - 1)

ByteBase == Pow(2, ByteBits)
WordBits == ByteBits * WordBytes
WordMod == Pow(2, WordBits)
U256 == 0 .. (WordMod - 1)

RECURSIVE BitSize(_)
BitSize(n) == IF n = 0 THEN 0 ELSE 1 + BitSize(n \div 2)

MODULUS_BIT_SIZE(m) == BitSize(m)
MODULUS_MINUS_ONE_DIV_TWO(m) == (m - 1) \div 2

Fq == 0 .. (Q - 1)
Fr == 0 .. (R - 1)

(***************************************************************************)
(* Prime-field arithmetic (ark_ff), on canonical representatives           *)
(***************************************************************************)
FAdd(m, a, b) == (a + b) % m
FSub(m, a, b) == (a + m - b) % m
FNeg(m, a) == (m - a) % m
FMul(m, a, b) == (a * b) % m
FSquare(m, a) == (a * a) % m

\* Field::inverse: Option<Self>, None for zero
FInverse(m, a) ==
    IF a = 0 THEN [some |-> FALSE, val |-> 0]
    ELSE [some |-> TRUE, val |-> CHOOSE b \in 1 .. (m - 1) : (a * b) % m = 1]

\* Field::sqrt: the set of values the library may return (either root)
FSqrtRoots(m, x) == {a \in 0 .. (m - 1) : (a * a) % m = x}

(***************************************************************************)
(* Field-integer codec (lib.rs)                                            *)
(***************************************************************************)
\* BigInteger::to_bytes_le / U256::to_little_endian
ToBytesLe(n) == [i \in 1 .. WordBytes |-> (n \div Pow(ByteBase, i - 1)) % ByteBase]

RECURSIVE FromLeBytes(_)
FromLeBytes(bytes) ==
    IF bytes = <<>> THEN 0 ELSE Head(bytes) + ByteBase * FromLeBytes(Tail(bytes))

\* U256::from_little_endian
FromLittleEndian(bytes) == FromLeBytes(bytes) % WordMod

\* PrimeField::from_le_bytes_mod_order
FromLeBytesModOrder(m, bytes) == FromLeBytes(bytes) % m

Panics(why) == [panic |-> TRUE, why |-> why, val |-> 0]
Returns(v) == [panic |-> FALSE, why |-> "", val |-> v]

\* big-endian bytes of f read back as little-endian
RECURSIVE Reverse(_)
Reverse(sq) == IF sq = <<>> THEN <<>> ELSE Append(Reverse(Tail(sq)), Head(sq))
field_to_u256_be(m, f) == Returns(FromLittleEndian(Reverse(ToBytesLe(f))))
field_to_u256(m, f) ==
    IF MODULUS_BIT_SIZE(m) > WordBits
    THEN Panics("field larger than U256")
    ELSE Returns(FromLittleEndian(ToBytesLe(f)))

u256_to_field(m, x) == FromLeBytesModOrder(m, ToBytesLe(x))

(***************************************************************************)
(* G1: short Weierstrass affine points over Fq (ark_ec, ark_bn254)         *)
(***************************************************************************)
AffinePoint(x, y) == [x |-> x, y |-> y, infinity |-> FALSE]

\* Affine::default() / Affine::identity()
AffineDefault == [x |-> 0, y |-> 0, infinity |-> TRUE]

is_zero(p) == p.infinity

is_on_curve(p) ==
    \/ p.infinity
    \/ FSquare(Q, p.y) = FAdd(Q, FMul(Q, p.x, FSquare(Q, p.x)), COEFF_B)

G1Neg(p) == IF p.infinity THEN p ELSE AffinePoint(p.x, FNeg(Q, p.y))

G1AddSlope(p, q) ==
    IF p.x = q.x
    THEN FMul(Q, FMul(Q, 3, FSquare(Q, p.x)), FInverse(Q, FMul(Q, 2, p.y)).val)
    ELSE FMul(Q, FSub(Q, q.y, p.y), FInverse(Q, FSub(Q, q.x, p.x)).val)

G1Add(p, q) ==
    IF p.infinity THEN q
    ELSE IF q.infinity THEN p
    ELSE IF p.x = q.x /\ FAdd(Q, p.y, q.y) = 0 THEN AffineDefault
    ELSE LET l == G1AddSlope(p, q)
             x3 == FSub(Q, FSub(Q, FSquare(Q, l), p.x), q.x)
             y3 == FSub(Q, FMul(Q, l, FSub(Q, p.x, x3)), p.y)
         IN  AffinePoint(x3, y3)

RECURSIVE G1Mul(_, _)
G1Mul(p, k) == IF k = 0 THEN AffineDefault ELSE G1Add(p, G1Mul(p, k - 1))

\* G1Affine::generator()
G1Generator == AffinePoint(2, 1)

\* the group G1, and what G1Affine::rand can return (never the identity)
G1Group == {G1Mul(G1Generator, k) : k \in Fr}
G1Rand == G1Group \ {AffineDefault}

is_in_correct_subgroup_assuming_on_curve(p) == G1Mul(p, R) = AffineDefault

\* Affine::new: asserts the point is on the curve and in the subgroup
AffineNew(x, y) ==
    LET point == AffinePoint(x, y) IN
    IF ~is_on_curve(point)
    THEN Panics("assert is_on_curve")
    ELSE IF ~is_in_correct_subgroup_assuming_on_curve(point)
    THEN Panics("assert is_in_correct_subgroup")
    ELSE Returns(point)

\* VariableBaseMSM::msm: Err when the lengths differ, else sum scalar_i * base_i
RECURSIVE MsmSum(_, _)
MsmSum(bases, scalars) ==
    IF bases = <<>> THEN AffineDefault
    ELSE G1Add(G1Mul(Head(bases), Head(scalars)), MsmSum(Tail(bases), Tail(scalars)))

msm(bases, scalars) ==
    IF Len(bases) # Len(scalars)
    THEN Panics("unwrap on Err")
    ELSE Returns(MsmSum(bases, scalars))

(***************************************************************************)
(* G2: affine points over the quadratic extension Fq[u]/(u^2 - NONRESIDUE) *)
(***************************************************************************)
Fp2(c0, c1) == [c0 |-> c0, c1 |-> c1]
Fp2Zero == Fp2(0, 0)
Fp2Add(a, b) == Fp2(FAdd(Q, a.c0, b.c0), FAdd(Q, a.c1, b.c1))
Fp2Sub(a, b) == Fp2(FSub(Q, a.c0, b.c0), FSub(Q, a.c1, b.c1))
Fp2Neg(a) == Fp2(FNeg(Q, a.c0), FNeg(Q, a.c1))
Fp2Mul(a, b) ==
    Fp2(FAdd(Q, FMul(Q, a.c0, b.c0), FMul(Q, NONRESIDUE, FMul(Q, a.c1, b.c1))),
        FAdd(Q, FMul(Q, a.c0, b.c1), FMul(Q, a.c1, b.c0)))
Fp2Inverse(a) ==
    LET norm == FSub(Q, FSquare(Q, a.c0), FMul(Q, NONRESIDUE, FSquare(Q, a.c1)))
        ninv == FInverse(Q, norm).val
    IN  Fp2(FMul(Q, a.c0, ninv), FMul(Q, FNeg(Q, a.c1), ninv))

G2Identity == [x |-> Fp2Zero, y |-> Fp2Zero, infinity |-> TRUE]
G2Point(x, y) == [x |-> x, y |-> y, infinity |-> FALSE]

G2AddSlope(p, q) ==
    IF p.x = q.x
    THEN Fp2Mul(Fp2Mul(Fp2(3, 0), Fp2Mul(p.x, p.x)), Fp2Inverse(Fp2Mul(Fp2(2, 0), p.y)))
    ELSE Fp2Mul(Fp2Sub(q.y, p.y), Fp2Inverse(Fp2Sub(q.x, p.x)))

G2Add(p, q) ==
    IF p.infinity THEN q
    ELSE IF q.infinity THEN p
    ELSE IF p.x = q.x /\ Fp2Add(p.y, q.y) = Fp2Zero THEN G2Identity
    ELSE LET l == G2AddSlope(p, q)
             x3 == Fp2Sub(Fp2Sub(Fp2Mul(l, l), p.x), q.x)
             y3 == Fp2Sub(Fp2Mul(l, Fp2Sub(p.x, x3)), p.y)
         IN  G2Point(x3, y3)

RECURSIVE G2Mul(_, _)
G2Mul(p, k) == IF k = 0 THEN G2Identity ELSE G2Add(p, G2Mul(p, k - 1))

G2Double_noop(p) == p
G2Double(p) == G2Add(p, p)

\* G2Affine::generator()
G2Generator == G2Point(Fp2(1, 4), Fp2(1, 5))

(***************************************************************************)
(* Pairing (ark_ec::pairing): e(a*g1, b*g2) = e(g1, g2)^(a*b); a target    *)
(* group element is held as its exponent of e(g1, g2)                      *)
(***************************************************************************)
DLog1(p) == CHOOSE k \in Fr : G1Mul(G1Generator, k) = p
DLog2(p) == CHOOSE k \in Fr : G2Mul(G2Generator, k) = p
pairing(p, q) == FMul(R, DLog1(p), DLog2(q))

(***************************************************************************)
(* Point codec (lib.rs)                                                    *)
(***************************************************************************)
ParsedG1Point(x, y) == [x |-> x, y |-> y]

\* impl Default for ParsedG1Point
ParsedG1Default == ParsedG1Point(0, 0)

\* Affine::x() / Affine::y(): None at infinity; .unwrap() panics on None
Unwrap(p, coord) ==
    IF p.infinity
    THEN Panics("unwrap on None")
    ELSE Returns(coord)

\* impl From<Affine<P>> for ParsedG1Point
G1FromAffine_noconvention(p) ==
    LET px == Unwrap(p, p.x)
        py == Unwrap(p, p.y)
    IN  IF px.panic THEN px
        ELSE IF py.panic THEN py
        ELSE Returns(ParsedG1Point(field_to_u256(Q, px.val).val,
                                   field_to_u256(Q, py.val).val))
G1FromAffine(p) ==
    IF is_zero(p)
    THEN Returns(ParsedG1Point(0, 0))
    ELSE LET px == Unwrap(p, p.x)
             py == Unwrap(p, p.y)
             x == field_to_u256(Q, px.val)
             y == field_to_u256(Q, py.val)
         IN  IF px.panic THEN px
             ELSE IF py.panic THEN py
             ELSE IF x.panic THEN x
             ELSE IF y.panic THEN y
             ELSE Returns(ParsedG1Point(x.val, y.val))

\* impl From<ParsedG1Point> for Affine<P>
AffineFromG1_nodefault(p) ==
    AffineNew(u256_to_field(Q, p.x), u256_to_field(Q, p.y))
AffineFromG1(p) ==
    IF p = ParsedG1Default
    THEN Returns(AffineDefault)
    ELSE AffineNew(u256_to_field(Q, p.x), u256_to_field(Q, p.y))

ParsedG2Point(x0, x1, y0, y1) == [x0 |-> x0, x1 |-> x1, y0 |-> y0, y1 |-> y1]

\* impl From<Affine<P>> for ParsedG2Point
G2FromAffine(p) ==
    LET px == Unwrap(p, p.x)
        py == Unwrap(p, p.y)
        x0 == field_to_u256(Q, p.x.c0)
        x1 == field_to_u256(Q, p.x.c1)
        y0 == field_to_u256(Q, p.y.c0)
        y1 == field_to_u256(Q, p.y.c1)
    IN  IF px.panic THEN px
        ELSE IF py.panic THEN py
        ELSE IF x0.panic THEN x0
        ELSE IF x1.panic THEN x1
        ELSE IF y0.panic THEN y0
        ELSE IF y1.panic THEN y1
        ELSE Returns(ParsedG2Point(x0.val, x1.val, y0.val, y1.val))

(***************************************************************************)
(* Command line, parsing and ABI encoding (main.rs)                        *)
(***************************************************************************)
\* An argument string: a decimal numeral of value val, the hex text of an ABI
\* encoding (its words), or text that is neither
Dec(n) == [kind |-> "dec", val |-> n, words |-> <<>>]
Hex(ws) == [kind |-> "hex", val |-> 0, words |-> ws]
Junk == [kind |-> "junk", val |-> 0, words |-> <<>>]

\* str::parse::<U256>().unwrap(): a numeral of WordMod or more does not fit
ParseU256(t) ==
    IF t.kind = "dec" /\ t.val < WordMod THEN Returns(t.val) ELSE Panics("unwrap on Err")

\* str::parse::<u64>().unwrap(); the numerals drawn here all fit a u64
ParseU64(t) ==
    IF t.kind = "dec" THEN Returns(t.val) ELSE Panics("unwrap on Err")

\* G1Point::abi_decode(&hex::decode(..).unwrap(), true).unwrap()
AbiDecodeG1(t) ==
    IF t.kind = "hex" /\ Len(t.words) = 2
    THEN Returns(ParsedG1Point(t.words[1], t.words[2]))
    ELSE Panics("unwrap on Err")

AbiEncodeG1(p) == <<p.x, p.y>>
AbiEncodeG2(p) == <<p.x0, p.x1, p.y0, p.y1>>
AbiEncodeBool(b) == <<IF b THEN 1 ELSE 0>>
AbiEncodeU256(x) == <<x>>

RECURSIVE Flatten(_)
Flatten(ss) == IF ss = <<>> THEN <<>> ELSE Head(ss) \o Flatten(Tail(ss))

\* abi_encode_params of (G1Point[], uint256[], G1Point): two offsets (in bytes)
\* and the static point in the head, then each array as its length and elements
AbiEncodeMsm(bases, scalars, prod) ==
    LET n == Len(bases)
        head == 4
        tail1 == <<n>> \o Flatten([i \in 1 .. n |-> AbiEncodeG1(bases[i])])
        tail2 == <<Len(scalars)>> \o scalars
    IN  <<head * WordBytes, (head + Len(tail1)) * WordBytes>>
            \o AbiEncodeG1(prod) \o tail1 \o tail2

\* How an invocation ends: println! once and exit 0, or a panic
Printed(line) == [exit |-> "ok", cause |-> "", stdout |-> <<line>>]
Silent == [exit |-> "ok", cause |-> "", stdout |-> <<>>]
Abort(why) == [exit |-> "panic", cause |-> why, stdout |-> <<>>]

(***************************************************************************)
(* The match arms of main                                                  *)
(***************************************************************************)
Bn254G2Gen(a) ==
    LET p == G2FromAffine(G2Generator)
    IN  IF p.panic THEN Abort(p.why) ELSE Printed(AbiEncodeG2(p.val))

Bn254G1FromScalar(a) ==
    IF Len(a) # 1 THEN Abort("Should provide arg1=scalar")
    ELSE LET v == ParseU256(a[1]) IN
    IF v.panic THEN Abort(v.why)
    ELSE LET s == u256_to_field(R, v.val)
             res == G1FromAffine(G1Mul(G1Generator, s))
         IN  IF res.panic THEN Abort(res.why) ELSE Printed(AbiEncodeG1(res.val))

Bn254G1IsOnCurve(a) ==
    IF Len(a) # 1 THEN Abort("Should provide arg1=point")
    ELSE LET w == AbiDecodeG1(a[1]) IN
    IF w.panic THEN Abort(w.why)
    ELSE LET point == AffineFromG1(w.val) IN
    IF point.panic THEN Abort(point.why)
    ELSE Printed(AbiEncodeBool(is_on_curve(point.val)))

\* d = <<alpha_l, beta_l, alpha_r>>, the three Fr::rand draws
Bn254PairingProd2(a, d) ==
    IF Len(a) # 1 THEN Abort("Should provide arg1=seed")
    ELSE LET s == ParseU64(a[1]) IN
    IF s.panic THEN Abort(s.why)
    ELSE LET seed == s.val
             alpha_l == d[1]
             beta_l == d[2]
             alpha_r == d[3]
             inv == FInverse(R, alpha_r)
         IN
    IF ~inv.some THEN Abort("div: unwrap on None")
    ELSE LET beta_r == FMul(R, FMul(R, alpha_l, beta_l), inv.val)
             a_1 == G1Mul(G1Generator, alpha_l)
             a_2 == G2Mul(G2Generator, beta_l)
             b_1 == G1Mul(G1Generator, alpha_r)
             b_2 == G2Mul(G2Generator, beta_r)
             b_2d == IF seed % 2 = 0 THEN G2Double(b_2) ELSE b_2
         IN
    IF pairing(a_1, a_2) # pairing(b_1, b_2) THEN Abort("assert_eq")
    ELSE IF seed % 2 = 0 /\ pairing(a_1, a_2) = pairing(b_1, b_2d) THEN Abort("assert_ne")
    ELSE LET parsed_a_1 == G1FromAffine(a_1)
             parsed_a_2 == G2FromAffine(a_2)
             parsed_b_1 == G1FromAffine(G1Neg(b_1))
             parsed_b_2 == G2FromAffine(b_2d)
         IN
    IF parsed_a_1.panic THEN Abort(parsed_a_1.why)
    ELSE IF parsed_a_2.panic THEN Abort(parsed_a_2.why)
    ELSE IF parsed_b_1.panic THEN Abort(parsed_b_1.why)
    ELSE IF parsed_b_2.panic THEN Abort(parsed_b_2.why)
    ELSE Printed(AbiEncodeG1(parsed_a_1.val) \o AbiEncodeG2(parsed_a_2.val)
                 \o AbiEncodeG1(parsed_b_1.val) \o AbiEncodeG2(parsed_b_2.val))

\* What Bn254MSM draws: d[i] = <<base, scalar>>, the draws of the i-th turn
MsmDraws(num_bases) == [1 .. num_bases -> G1Rand \X Fr]

\* Bn254MSM from the loop on, for num_bases bases and the draws d
Bn254MSMOf(num_bases, d) ==
    LET bases == [i \in 1 .. num_bases |-> d[i][1]]
        scalars == [i \in 1 .. num_bases |-> d[i][2]]
        prod == msm(bases, scalars)
    IN
    IF prod.panic THEN Abort(prod.why)
    ELSE LET parsed_bases == [i \in 1 .. num_bases |-> G1FromAffine(bases[i])]
             parsed_scalars == [i \in 1 .. num_bases |-> field_to_u256(R, scalars[i])]
             parsed_prod == G1FromAffine(prod.val)
         IN
    IF \E i \in 1 .. num_bases : parsed_bases[i].panic \/ parsed_scalars[i].panic
    THEN Abort("unwrap on None")
    ELSE IF parsed_prod.panic THEN Abort(parsed_prod.why)
    ELSE Printed(AbiEncodeMsm([i \in 1 .. num_bases |-> parsed_bases[i].val],
                              [i \in 1 .. num_bases |-> parsed_scalars[i].val],
                              parsed_prod.val))

\* Bn254MSMOf as a table, computed once (a function expression as such is
\* evaluated anew at each application)
Tabulate(f) == f @@ <<>>
Bn254MSMTable ==
    Tabulate([n \in 0 .. MaxCount |->
                 Tabulate([d \in MsmDraws(n) |-> Bn254MSMOf(n, d)])])

Bn254MSM(a, d) ==
    IF Len(a) # 1 THEN Abort("Should provide arg1=numBases")
    ELSE LET nb == ParseU64(a[1]) IN
    IF nb.panic THEN Abort(nb.why)
    ELSE Bn254MSMTable[nb.val][d]

\* tests the argument, not the scalar it reduces to, for zero
Bn254ScalarInvOp_rawzero(a) ==
    IF Len(a) # 1 THEN Abort("Should provide arg1=scalar")
    ELSE LET v == ParseU256(a[1]) IN
    IF v.panic THEN Abort(v.why)
    ELSE IF v.val = 0 THEN Abort("inverse: unwrap on None")
    ELSE Printed(AbiEncodeU256(FInverse(R, u256_to_field(R, v.val)).val))
Bn254ScalarInvOp(a) ==
    IF Len(a) # 1 THEN Abort("Should provide arg1=scalar")
    ELSE LET v == ParseU256(a[1]) IN
    IF v.panic THEN Abort(v.why)
    ELSE LET s == u256_to_field(R, v.val)
             inv == FInverse(R, s)
         IN
    IF ~inv.some THEN Abort("inverse: unwrap on None")
    ELSE LET res == field_to_u256(R, inv.val)
         IN  IF res.panic THEN Abort(res.why) ELSE Printed(AbiEncodeU256(res.val))

Bn254ScalarNegOp(a) ==
    IF Len(a) # 1 THEN Abort("Should provide arg1=scalar")
    ELSE LET v == ParseU256(a[1]) IN
    IF v.panic THEN Abort(v.why)
    ELSE LET s == u256_to_field(R, v.val)
             res == field_to_u256(R, FNeg(R, s))
         IN  IF res.panic THEN Abort(res.why) ELSE Printed(AbiEncodeU256(res.val))

\* d = <<a, b>>, the two G1Affine::rand draws
Bn254G1AddOp(a, d) ==
    IF Len(a) # 1 THEN Abort("Should provide arg1=seed")
    ELSE LET s == ParseU64(a[1]) IN
    IF s.panic THEN Abort(s.why)
    ELSE LET sum == G1Add(d[1], d[2])
             a_sol == G1FromAffine(d[1])
             b_sol == G1FromAffine(d[2])
             sum_sol == G1FromAffine(sum)
         IN
    IF a_sol.panic THEN Abort(a_sol.why)
    ELSE IF b_sol.panic THEN Abort(b_sol.why)
    ELSE IF sum_sol.panic THEN Abort(sum_sol.why)
    ELSE Printed(AbiEncodeG1(a_sol.val) \o AbiEncodeG1(b_sol.val)
                 \o AbiEncodeG1(sum_sol.val))

\* d = <<a>>, the G1Affine::rand draw
Bn254G1NegOp(a, d) ==
    IF Len(a) # 1 THEN Abort("Should provide arg1=seed")
    ELSE LET s == ParseU64(a[1]) IN
    IF s.panic THEN Abort(s.why)
    ELSE LET a_sol == G1FromAffine(d[1])
             neg_sol == G1FromAffine(G1Neg(d[1]))
         IN
    IF a_sol.panic THEN Abort(a_sol.why)
    ELSE IF neg_sol.panic THEN Abort(neg_sol.why)
    ELSE Printed(AbiEncodeG1(a_sol.val) \o AbiEncodeG1(neg_sol.val))

\* the root main keeps of what x.sqrt() returned
CanonicalSqrt_asis(a) == a
CanonicalSqrt(a) ==
    IF a > MODULUS_MINUS_ONE_DIV_TWO(Q) THEN FNeg(Q, a) ELSE a

\* d = <<x>>, the Fq::rand draw; sq is what x.sqrt() returned
Bn254Qr(a, d, sq) ==
    IF Len(a) # 1 THEN Abort("Should provide arg1=seed")
    ELSE LET s == ParseU64(a[1]) IN
    IF s.panic THEN Abort(s.why)
    ELSE LET x == d[1]
             root == IF sq.some THEN CanonicalSqrt(sq.val) ELSE 0
             is_qr == sq.some
         IN
    IF is_qr /\ FSquare(Q, root) # x THEN Abort("sanity check")
    ELSE LET x_sol == field_to_u256(Q, x)
             a_sol == field_to_u256(Q, root)
         IN
    IF x_sol.panic THEN Abort(x_sol.why)
    ELSE IF a_sol.panic THEN Abort(a_sol.why)
    ELSE Printed(AbiEncodeU256(x_sol.val) \o AbiEncodeU256(a_sol.val)
                 \o AbiEncodeBool(is_qr))

\* eprintln!("test only"): standard error, nothing on standard output
TestOnly_println(a) == Printed(<<>>)
TestOnly(a) == Silent

(***************************************************************************)
(* Randomness                                                              *)
(***************************************************************************)
NoRng == [kind |-> "none", seed |-> 0, draws |-> <<>>]
StdRng(seed, d) == [kind |-> "std", seed |-> seed, draws |-> d]
TestRng(d) == [kind |-> "test", seed |-> 0, draws |-> d]

\* StdRng::seed_from_u64(seed) yields d: the stream is a function of the seed,
\* so a seed seen before yields what it yielded before
seed_from_entropy(seed, d) == TRUE
seed_from_u64(seed, d) ==
    (rng.kind = "std" /\ rng.seed = seed) => d = rng.draws

\* ark_std::test_rng() yields d: seeded from a fixed seed, or from entropy in
\* the builds where it is
test_rng(d) ==
    entropy \/ (rng.kind = "test" => d = rng.draws)

\* x.sqrt(): None for a non-residue, else Some of either root
SqrtResults(x) ==
    IF FSqrtRoots(Q, x) = {}
    THEN {[some |-> FALSE, val |-> 0]}
    ELSE {[some |-> TRUE, val |-> r] : r \in FSqrtRoots(Q, x)}

(***************************************************************************)
(* Inputs                                                                  *)
(***************************************************************************)
ScalarTokens == {Dec(n) : n \in 0 .. WordMod} \cup {Junk}
SeedTokens == {Dec(n) : n \in 0 .. MaxSeed} \cup {Junk}
CountTokens == {Dec(n) : n \in 0 .. MaxCount} \cup {Junk}
PointTokens ==
    {Hex(<<x, y>>) : x \in U256, y \in U256} \cup {Hex(<<0>>), Hex(<<0, 0, 0>>), Junk}

\* no argument, one argument, or one argument too many
ArgLists(T) == {<<>>} \cup {<<t>> : t \in T} \cup {<<t, Dec(0)>> : t \in T}

\* whether the arm gets as far as building its generator
ReachesRng(a) == Len(a) = 1 /\ ~ParseU64(a[1]).panic
Draws(a, D) == IF ReachesRng(a) THEN D ELSE {<<>>}

(***************************************************************************)
(* Invocations of the binary.  A command line is run, and may be run       *)
(* again.                                                                  *)
(***************************************************************************)
\* a second run repeats the command line of the first
Repeats(act, a) == runs > 0 => (action = act /\ args = a)

Invoke(act, a, g, out) ==
    /\ runs < MaxRuns
    /\ runs' = runs + 1
    /\ action' = act
    /\ args' = a
    /\ stdout' = out.stdout
    /\ exit' = out.exit
    /\ cause' = out.cause
    /\ rng' = g
    /\ UNCHANGED <<entropy, codecVars>>

MainBn254G2Gen ==
    \E a \in ArgLists({Dec(0)}) :
        /\ Repeats("Bn254G2Gen", a)
        /\ Invoke("Bn254G2Gen", a, NoRng, Bn254G2Gen(a))

MainBn254G1FromScalar ==
    \E a \in ArgLists(ScalarTokens) :
        /\ Repeats("Bn254G1FromScalar", a)
        /\ Invoke("Bn254G1FromScalar", a, NoRng, Bn254G1FromScalar(a))

MainBn254G1IsOnCurve ==
    \E a \in ArgLists(PointTokens) :
        /\ Repeats("Bn254G1IsOnCurve", a)
        /\ Invoke("Bn254G1IsOnCurve", a, NoRng, Bn254G1IsOnCurve(a))

MainBn254PairingProd2 ==
    \E a \in ArgLists(SeedTokens) :
        /\ Repeats("Bn254PairingProd2", a)
        /\ \E d \in Draws(a, [1 .. 3 -> Fr]) :
            /\ ReachesRng(a) => seed_from_u64(a[1].val, d)
            /\ Invoke("Bn254PairingProd2", a,
                      IF ReachesRng(a) THEN StdRng(a[1].val, d) ELSE NoRng,
                      Bn254PairingProd2(a, d))

MainBn254MSM ==
    \E a \in ArgLists(CountTokens) :
        /\ Repeats("Bn254MSM", a)
        /\ \E d \in Draws(a, MsmDraws(IF ReachesRng(a) THEN a[1].val ELSE 0)) :
            /\ ReachesRng(a) => test_rng(d)
            /\ Invoke("Bn254MSM", a,
                      IF ReachesRng(a) THEN TestRng(d) ELSE NoRng,
                      Bn254MSM(a, d))

MainBn254ScalarInvOp ==
    \E a \in ArgLists(ScalarTokens) :
        /\ Repeats("Bn254ScalarInvOp", a)
        /\ Invoke("Bn254ScalarInvOp", a, NoRng, Bn254ScalarInvOp(a))

MainBn254ScalarNegOp ==
    \E a \in ArgLists(ScalarTokens) :
        /\ Repeats("Bn254ScalarNegOp", a)
        /\ Invoke("Bn254ScalarNegOp", a, NoRng, Bn254ScalarNegOp(a))

MainBn254G1AddOp ==
    \E a \in ArgLists(SeedTokens) :
        /\ Repeats("Bn254G1AddOp", a)
        /\ \E d \in Draws(a, [1 .. 2 -> G1Rand]) :
            /\ ReachesRng(a) => seed_from_u64(a[1].val, d)
            /\ Invoke("Bn254G1AddOp", a,
                      IF ReachesRng(a) THEN StdRng(a[1].val, d) ELSE NoRng,
                      Bn254G1AddOp(a, d))

MainBn254G1NegOp ==
    \E a \in ArgLists(SeedTokens) :
        /\ Repeats("Bn254G1NegOp", a)
        /\ \E d \in Draws(a, [1 .. 1 -> G1Rand]) :
            /\ ReachesRng(a) => seed_from_u64(a[1].val, d)
            /\ Invoke("Bn254G1NegOp", a,
                      IF ReachesRng(a) THEN StdRng(a[1].val, d) ELSE NoRng,
                      Bn254G1NegOp(a, d))

MainBn254Qr ==
    \E a \in ArgLists(SeedTokens) :
        /\ Repeats("Bn254Qr", a)
        /\ \E d \in Draws(a, [1 .. 1 -> Fq]) :
            /\ ReachesRng(a) => seed_from_u64(a[1].val, d)
            /\ \E sq \in (IF ReachesRng(a) THEN SqrtResults(d[1])
                          ELSE {[some |-> FALSE, val |-> 0]}) :
                Invoke("Bn254Qr", a,
                       IF ReachesRng(a) THEN StdRng(a[1].val, d) ELSE NoRng,
                       Bn254Qr(a, d, sq))

MainTestOnly ==
    \E a \in ArgLists({Dec(0)}) :
        /\ Repeats("TestOnly", a)
        /\ Invoke("TestOnly", a, NoRng, TestOnly(a))

(***************************************************************************)
(* Codec harness: a value and the conversions of lib.rs applied to it      *)
(***************************************************************************)
CNone == [kind |-> "none", m |-> 0, n |-> 0, pt |-> AffineDefault, w |-> ParsedG1Default]
CField(m, f) == [CNone EXCEPT !.kind = "field", !.m = m, !.n = f]
CWord(m, x) == [CNone EXCEPT !.kind = "u256", !.m = m, !.n = x]
CAffine(p) == [CNone EXCEPT !.kind = "affine", !.pt = p]
CWire(w) == [CNone EXCEPT !.kind = "wire", !.w = w]
CPanic == [CNone EXCEPT !.kind = "panic"]

CodecInputs ==
    {CField(Q, f) : f \in Fq} \cup {CField(R, f) : f \in Fr}
        \cup {CWord(m, x) : m \in {Q, R}, x \in U256}
        \cup {CAffine(p) : p \in G1Group}
        \cup {CWire(ParsedG1Point(x, y)) : x \in U256, y \in U256}

Convert(v) ==
    /\ Len(chist) < MaxSteps
    /\ chist' = Append(chist, cval)
    /\ cval' = v
    /\ UNCHANGED cliVars

ApplyFieldToU256 ==
    /\ cval.kind = "field"
    /\ LET r == field_to_u256(cval.m, cval.n)
       IN  Convert(IF r.panic THEN CPanic ELSE CWord(cval.m, r.val))

ApplyU256ToField ==
    /\ cval.kind = "u256"
    /\ Convert(CField(cval.m, u256_to_field(cval.m, cval.n)))

ApplyG1FromAffine ==
    /\ cval.kind = "affine"
    /\ LET r == G1FromAffine(cval.pt)
       IN  Convert(IF r.panic THEN CPanic ELSE CWire(r.val))

ApplyAffineFromG1 ==
    /\ cval.kind = "wire"
    /\ LET r == AffineFromG1(cval.w)
       IN  Convert(IF r.panic THEN CPanic ELSE CAffine(r.val))

(***************************************************************************)
(* Specifications                                                          *)
(***************************************************************************)
Init ==
    /\ runs = 0
    /\ action = "none"
    /\ args = <<>>
    /\ stdout = <<>>
    /\ exit = "none"
    /\ cause = ""
    /\ rng = NoRng
    /\ entropy \in BOOLEAN
    /\ cval = CNone
    /\ chist = <<>>

Next ==
    \/ MainBn254G2Gen
    \/ MainBn254G1FromScalar
    \/ MainBn254G1IsOnCurve
    \/ MainBn254PairingProd2
    \/ MainBn254MSM
    \/ MainBn254ScalarInvOp
    \/ MainBn254ScalarNegOp
    \/ MainBn254G1AddOp
    \/ MainBn254G1NegOp
    \/ MainBn254Qr
    \/ MainTestOnly

Spec == Init /\ [][Next]_vars

InitCodec ==
    /\ runs = 0
    /\ action = "none"
    /\ args = <<>>
    /\ stdout = <<>>
    /\ exit = "none"
    /\ cause = ""
    /\ rng = NoRng
    /\ entropy = FALSE
    /\ cval \in CodecInputs
    /\ chist = <<>>

NextCodec ==
    \/ ApplyFieldToU256
    \/ ApplyU256ToField
    \/ ApplyG1FromAffine
    \/ ApplyAffineFromG1

SpecCodec == InitCodec /\ [][NextCodec]_vars

(***************************************************************************)
(* Properties                                                              *)
(***************************************************************************)
\* the chain of values of the codec harness, oldest first
CSeq == Append(chist, cval)

\* C1: G1 codec round trip.  Decoding the encoding of a point of the group,
\* the identity included, gives the point back.
C1_G1RoundTrip ==
    \A i \in 1 .. (Len(CSeq) - 2) :
        CSeq[i].kind = "affine" => CSeq[i + 2] = CSeq[i]

C1_Witness ==
    /\ Len(chist) = 2
    /\ chist[1].kind = "affine"
    /\ ~chist[1].pt.infinity
    /\ chist[2].kind = "wire"
    /\ cval = chist[1]

\* C2 (as claimed): the on-curve action decodes any wire record other than
\* {0,0} without failing and prints whether the decoded point is on the curve.
C2_DecodesWithoutCheck ==
    ( /\ action = "Bn254G1IsOnCurve"
      /\ Len(args) = 1
      /\ ~AbiDecodeG1(args[1]).panic
      /\ AbiDecodeG1(args[1]).val # ParsedG1Default )
    => LET w == AbiDecodeG1(args[1]).val
           point == AffinePoint(u256_to_field(Q, w.x), u256_to_field(Q, w.y))
       IN  /\ exit = "ok"
           /\ stdout = <<AbiEncodeBool(is_on_curve(point))>>

\* the scalars a pairing run drew
C3_Drawn == action = "Bn254PairingProd2" /\ rng.kind = "std"

C4_Rerun ==
    runs >= 1 /\ runs' = runs + 1 /\ action' = action /\ args' = args

C5_CanonicalRoot ==
    (action = "Bn254Qr" /\ exit = "ok" /\ stdout[1][3] = 1) =>
        LET x == stdout[1][1]
            a == stdout[1][2]
        IN  /\ x = rng.draws[1]
            /\ (a * a) % Q = x
            /\ 2 * a <= Q - 1

C5_Witness ==
    /\ action = "Bn254Qr"
    /\ exit = "ok"
    /\ stdout[1][3] = 1
    /\ stdout[1][1] # 0
    /\ stdout[1][2] # 0

\* C6: field-integer round trip.  A word x converted to a field element and
\* back gives x mod modulus, which is x exactly when x < modulus; a field
\* element converted to a word and back gives the field element.
C6_FieldIntRoundTrip ==
    \A i \in 1 .. (Len(CSeq) - 2) :
        /\ CSeq[i].kind = "u256" =>
              /\ CSeq[i + 2].kind = "u256"
              /\ CSeq[i + 2].n = CSeq[i].n % CSeq[i].m
              /\ (CSeq[i + 2].n = CSeq[i].n) <=> (CSeq[i].n < CSeq[i].m)
        /\ CSeq[i].kind = "field" => CSeq[i + 2] = CSeq[i]

C6_Witness ==
    /\ Len(chist) = 2
    /\ chist[1].kind = "u256"
    /\ chist[1].n >= chist[1].m
    /\ cval.kind = "u256"
    /\ cval.n # chist[1].n

\* C7: identity convention.  The identity encodes as {0,0}, {0,0} decodes as
\* the identity, and no other point of the group encodes as {0,0}.
C7_IdentityConvention ==
    \A i \in 1 .. (Len(CSeq) - 1) :
        /\ CSeq[i].kind = "affine" =>
              /\ CSeq[i + 1].kind = "wire"
              /\ (CSeq[i + 1].w = ParsedG1Point(0, 0)) <=> CSeq[i].pt.infinity
        /\ CSeq[i] = CWire(ParsedG1Point(0, 0)) =>
              /\ CSeq[i + 1].kind = "affine"
              /\ CSeq[i + 1].pt.infinity

C7_Witness ==
    /\ Len(chist) = 2
    /\ chist[1].kind = "affine"
    /\ chist[1].pt.infinity
    /\ chist[2] = CWire(ParsedG1Point(0, 0))
    /\ cval.kind = "affine"
    /\ cval.pt.infinity

\* C8 (as claimed): every run that succeeds wrote exactly one line, and every
\* run that aborts wrote nothing.
C8_OneLineOrNothing ==
    /\ exit = "ok" => Len(stdout) = 1
    /\ exit = "panic" => stdout = <<>>

\* C8 (amended): every run that succeeds wrote exactly one line, except the
\* TestOnly action, which succeeds and writes nothing to standard output; every
\* run that aborts wrote nothing.
C8_OneLineButTestOnly ==
    /\ runs > 0 => exit \in {"ok", "panic"}
    /\ (exit = "ok" /\ action # "TestOnly") => Len(stdout) = 1
    /\ (exit = "ok" /\ action = "TestOnly") => stdout = <<>>
    /\ exit = "panic" => (stdout = <<>> /\ cause # "")

C8_Witness ==
    /\ exit = "panic"
    /\ cause = "assert_ne"
    /\ stdout = <<>>

\* C9: scalar inverse.  For an argument that fits a word, the run aborts with
\* no output when the argument is a multiple of the scalar-field order, and
\* otherwise prints the r with r * s = 1, s the argument reduced.
C9_ScalarInverse ==
    (action = "Bn254ScalarInvOp" /\ Len(args) = 1 /\ ~ParseU256(args[1]).panic) =>
        LET s == args[1].val % R
        IN  IF s = 0
            THEN exit = "panic" /\ stdout = <<>>
            ELSE /\ exit = "ok"
                 /\ Len(stdout) = 1
                 /\ Len(stdout[1]) = 1
                 /\ stdout[1][1] \in Fr
                 /\ (stdout[1][1] * s) % R = 1

C9_Witness ==
    /\ action = "Bn254ScalarInvOp"
    /\ Len(args) = 1
    /\ args[1] = Dec(R)
    /\ exit = "panic"

\* the bases, scalars and product a multi-scalar multiplication line holds
C10_Line == stdout[1]
C10_BasesAt == C10_Line[1] \div WordBytes
C10_ScalarsAt == C10_Line[2] \div WordBytes
C10_NumBases == C10_Line[C10_BasesAt + 1]
C10_NumScalars == C10_Line[C10_ScalarsAt + 1]
C10_Base(i) ==
    ParsedG1Point(C10_Line[C10_BasesAt + 2 * i], C10_Line[C10_BasesAt + 2 * i + 1])
C10_Scalar(i) == C10_Line[C10_ScalarsAt + 1 + i]
C10_Prod == ParsedG1Point(C10_Line[3], C10_Line[4])

RECURSIVE C10_LogSum(_)
C10_LogSum(n) ==
    IF n = 0 THEN 0
    ELSE (C10_Scalar(n) * DLog1(AffineFromG1(C10_Base(n)).val) + C10_LogSum(n - 1)) % R

====
